---- MODULE Spec2Model ----
(***************************************************************************)
(* The accumulator session of fl-zkp-bridge (FLZKPProver, lib.rs): a       *)
(* Python-facing prover that folds fixed-point encoded gradients through   *)
(* the ProtoGalaxy folding engine with the AdditionFCircuit step circuit.  *)
(*                                                                         *)
(* Numbers.  An f64 is modelled as an integer count of units of            *)
(* 1 / FloatDen, FloatDen = SCALE * SubMicro, so that the grid is finer    *)
(* than the encoder's 1e-6 and truncation is visible; arithmetic on the    *)
(* grid is exact (f64 rounding is not modelled).  The machine word and the *)
(* field are scaled down: the signed word has I64Bits bits and the scalar  *)
(* field is the integers modulo FieldModulus, which, like BN254's Fr       *)
(* against 2^64, is far larger than any sum of word-sized encodings the    *)
(* bounded runs can build.                                                 *)
(*                                                                         *)
(* Specifications.  Spec: one session under every call sequence.  SpecTwo: *)
(* two sessions of one process, interleaved.  SpecLong: one session folded *)
(* ManyFolds times and verified.  SpecEnc: one float encoded by            *)
(* float_to_field and decoded by the example's field_to_float.             *)
(***************************************************************************)
EXTENDS Integers, Sequences, FiniteSets, TLC

\* ------------------------------------------------------------------ bounds
SubMicro == 4          \* float grid points per 1e-6
I64Bits == 5           \* width of the modelled machine word (64 in the build)
FieldModulus == 1009   \* order of the modelled scalar field
MaxFolds == 2          \* folds per engine instance before the model stops folding
MaxBatch == 2          \* longest batch handed to prove_gradient_batch
MaxSetups == 2         \* preprocess calls (fresh parameter pairs) per run
ManyFolds == 15        \* folds of the long session whose verification is costed

\* --------------------------------------------------------------- constants
SCALE == 1000000

FloatDen == SCALE * SubMicro
RECURSIVE Pow2(_)
Pow2(n) == IF n = 0 THEN 1 ELSE 2 * Pow2(n - 1)
I64_MAX == Pow2(I64Bits - 1) - 1
I64_MIN == -Pow2(I64Bits - 1)
U64_MOD == Pow2(I64Bits)

\* The floats the caller supplies: small values on and between the 1e-6 grid
\* lines, the exact preimage of i64::MIN, and a value whose scaled magnitude
\* exceeds the signed word.
MinFloat == I64_MIN * SubMicro
HugeFloat == (I64_MAX + 3) * SubMicro + 1
Floats == {MinFloat, -5, 7, HugeFloat}
\* the gradients a batch is built from
BatchFloats == {-5, 7}

None == [tag |-> "None"]
Some(x) == [tag |-> "Some", v |-> x]

\* ----------------------------------------------------------- field encoder
Abs(x) == IF x < 0 THEN -x ELSE x

\* f64 -> integer conversion truncates toward zero
TruncDiv(a, b) == IF a >= 0 THEN a \div b ELSE -((-a) \div b)

\* `as i64` on a finite f64: truncate, then saturate at the word's range
AsI64(num, den) ==
    LET t == TruncDiv(num, den)
    IN  IF t > I64_MAX THEN I64_MAX ELSE IF t < I64_MIN THEN I64_MIN ELSE t

\* Fr::from(u64)
FrFromU64(u) == u % FieldModulus

\* field negation
FrNeg(a) == (FieldModulus - a) % FieldModulus

\* field addition
FrAdd(a, b) == (a + b) % FieldModulus

\* float_to_field rounding the scaled value down (floor for truncation)
float_to_field_floor(value, checks) ==
    LET scaled == (value * SCALE) \div FloatDen
    IN  IF scaled >= 0
        THEN [panic |-> FALSE, fe |-> FrFromU64(scaled)]
        ELSE [panic |-> FALSE, fe |-> FrNeg(FrFromU64(-scaled))]

\* float_to_field with the sign of a negative value dropped
float_to_field_nosign(value, checks) ==
    LET scaled == AsI64(value * SCALE, FloatDen)
    IN  [panic |-> FALSE, fe |-> FrFromU64(Abs(scaled))]

\* float_to_field; checks: whether the build traps integer overflow.
\* -scaled overflows for scaled = i64::MIN: a panic with overflow checks, a
\* wrap back to i64::MIN without them, which `as u64` reads as 2^63.
float_to_field(value, checks) ==
    LET scaled == AsI64(value * SCALE, FloatDen)
    IN  IF scaled >= 0
        THEN [panic |-> FALSE, fe |-> FrFromU64(scaled)]
        ELSE IF scaled = I64_MIN
             THEN IF checks
                  THEN [panic |-> TRUE, fe |-> 0]
                  ELSE [panic |-> FALSE, fe |-> FrNeg(FrFromU64(U64_MOD + I64_MIN))]
             ELSE [panic |-> FALSE, fe |-> FrNeg(FrFromU64(-scaled))]

\* ------------------------------------------------------------ step circuit
state_len == 1

\* a step circuit that adds the step index as well
generate_step_constraints_indexed(i, z_i, external_inputs) ==
    << FrAdd(FrAdd(z_i[1], external_inputs[1]), i) >>

\* z_{i+1} = z_i + gradient; the step index is not used
generate_step_constraints(i, z_i, external_inputs) ==
    << FrAdd(z_i[1], external_inputs[1]) >>

\* ----------------------------------------------------------- folding engine
\* The engine's contract: preprocess, init, prove_step, ivc_proof, verify.
\* A committed instance is bound to the parameters it was committed under.

\* the public input of an incoming instance: a hash of (i, z_0, z_i)
StateHash(i, z_0, z_i) == << i, z_0[1], z_i[1] >>

\* preprocess: a fresh parameter pair per call (fresh randomness)
PG_preprocess(fresh) == [pp |-> fresh, vp |-> fresh]

\* init: step counter 0, z_i = z_0, trivial running and incoming instances
PG_init(params, z_0) ==
    [ i   |-> 0,
      z_0 |-> z_0,
      z_i |-> z_0,
      U_i |-> [pp |-> params.pp, n |-> 0, acc |-> 0],
      u_i |-> [pp |-> params.pp, x |-> StateHash(0, z_0, z_0)],
      pp  |-> params.pp ]

\* prove_step: fold the incoming instance into the running one, apply the
\* step circuit, count the step
PG_prove_step(pg, external_inputs) ==
    LET z_next == generate_step_constraints(pg.i, pg.z_i, external_inputs)
        i_next == FrAdd(pg.i, 1)
    IN  [ i   |-> i_next,
          z_0 |-> pg.z_0,
          z_i |-> z_next,
          U_i |-> [pp |-> pg.pp, n |-> pg.U_i.n + 1,
                   acc |-> FrAdd(pg.U_i.acc, FrAdd(pg.u_i.x[3], pg.u_i.x[1]))],
          u_i |-> [pp |-> pg.pp, x |-> StateHash(i_next, pg.z_0, z_next)],
          pp  |-> pg.pp ]

\* ivc_proof: the snapshot (i, z_0, z_i, running and incoming instances)
PG_ivc_proof(pg) ==
    [i |-> pg.i, z_0 |-> pg.z_0, z_i |-> pg.z_i, U_i |-> pg.U_i, u_i |-> pg.u_i]

\* verify: the instances were committed under these parameters, the incoming
\* instance carries the hash of the claimed state, and the running instance
\* has folded exactly i instances
PG_verify(vp, proof) ==
    /\ proof.U_i.pp = vp
    /\ proof.u_i.pp = vp
    /\ proof.u_i.x = StateHash(proof.i, proof.z_0, proof.z_i)
    /\ proof.U_i.n = proof.i
    /\ (proof.i = 0 => proof.z_0 = proof.z_i)

\* serialize_compressed of a committed instance
SerializeRunning(U) == << U.pp, U.n, U.acc >>
SerializeIncoming(u) == << u.pp >> \o u.x

\* serialize_compressed of the proof artifact: step counter, initial state,
\* current state, running and incoming instance
SerializeProof(proof) ==
    << proof.i >> \o proof.z_0 \o proof.z_i
        \o SerializeRunning(proof.U_i) \o SerializeIncoming(proof.u_i)

\* ------------------------------------------------------------- the session
\* What a call hands back to Python: a value, or a raised exception.
\* `at` is the index a batch error message names (-1: none).
Ok(op, val) == [op |-> op, ok |-> TRUE, err |-> "", val |-> val, at |-> -1]
Err(op, msg) == [op |-> op, ok |-> FALSE, err |-> msg, val |-> 0, at |-> -1]

MsgInitialized == "ZKP system initialized successfully (ProtoGalaxy)"
MsgNotInitStep == "ProtoGalaxy not initialized. Call initialize() first."
MsgNotInit == "ProtoGalaxy not initialized"
MsgNoParams == "ProtoGalaxy params not initialized"
MsgEngine == "engine error"
MsgPanic == "panic: attempt to negate with overflow"

\* FLZKPProver::new
new == [protogalaxy |-> None, pg_params |-> None, current_state |-> << 0 >>]

\* initialize setting the engine up only when the session has none yet
initialize_keep_engine(self, initial_value, fresh, preprocess_ok, init_ok, checks) ==
    IF ~preprocess_ok THEN [self |-> self, res |-> Err("initialize", MsgEngine)]
    ELSE
    LET params == PG_preprocess(fresh)
        enc == float_to_field(initial_value, checks)
    IN  IF enc.panic THEN [self |-> self, res |-> Err("initialize", MsgPanic)]
        ELSE IF ~init_ok THEN [self |-> self, res |-> Err("initialize", MsgEngine)]
        ELSE IF self.protogalaxy # None
        THEN [self |-> [self EXCEPT !.current_state = << initial_value >>],
              res  |-> Ok("initialize", MsgInitialized)]
        ELSE [self |-> [protogalaxy   |-> Some(PG_init(params, << enc.fe >>)),
                        pg_params     |-> Some(params),
                        current_state |-> << initial_value >>],
              res  |-> Ok("initialize", MsgInitialized)]

\* initialize keeping the pair of a second preprocess run, not the one the
\* engine was set up with
initialize_second_setup(self, initial_value, fresh, preprocess_ok, init_ok, checks) ==
    IF ~preprocess_ok THEN [self |-> self, res |-> Err("initialize", MsgEngine)]
    ELSE
    LET params == PG_preprocess(fresh)
        enc == float_to_field(initial_value, checks)
    IN  IF enc.panic THEN [self |-> self, res |-> Err("initialize", MsgPanic)]
        ELSE IF ~init_ok THEN [self |-> self, res |-> Err("initialize", MsgEngine)]
        ELSE [self |-> [protogalaxy   |-> Some(PG_init(params, << enc.fe >>)),
                        pg_params     |-> Some(PG_preprocess(fresh + MaxSetups + 1)),
                        current_state |-> << initial_value >>],
              res  |-> Ok("initialize", MsgInitialized)]

\* initialize storing the new parameter pair before the engine's init is
\* asked
initialize_params_first(self, initial_value, fresh, preprocess_ok, init_ok, checks) ==
    IF ~preprocess_ok THEN [self |-> self, res |-> Err("initialize", MsgEngine)]
    ELSE
    LET params == PG_preprocess(fresh)
        enc == float_to_field(initial_value, checks)
        stored == [self EXCEPT !.pg_params = Some(params)]
    IN  IF enc.panic THEN [self |-> stored, res |-> Err("initialize", MsgPanic)]
        ELSE IF ~init_ok THEN [self |-> stored, res |-> Err("initialize", MsgEngine)]
        ELSE [self |-> [protogalaxy   |-> Some(PG_init(params, << enc.fe >>)),
                        pg_params     |-> Some(params),
                        current_state |-> << initial_value >>],
              res  |-> Ok("initialize", MsgInitialized)]

\* initialize storing the engine without the parameter pair
initialize_no_params(self, initial_value, fresh, preprocess_ok, init_ok, checks) ==
    IF ~preprocess_ok THEN [self |-> self, res |-> Err("initialize", MsgEngine)]
    ELSE
    LET params == PG_preprocess(fresh)
        enc == float_to_field(initial_value, checks)
    IN  IF enc.panic THEN [self |-> self, res |-> Err("initialize", MsgPanic)]
        ELSE IF ~init_ok THEN [self |-> self, res |-> Err("initialize", MsgEngine)]
        ELSE [self |-> [protogalaxy   |-> Some(PG_init(params, << enc.fe >>)),
                        pg_params     |-> self.pg_params,
                        current_state |-> << initial_value >>],
              res  |-> Ok("initialize", MsgInitialized)]

\* FLZKPProver::initialize.  fresh: the parameter pair this call's randomness
\* yields; preprocess_ok, init_ok: whether the engine's preprocess and init
\* succeed.
initialize(self, initial_value, fresh, preprocess_ok, init_ok, checks) ==
    IF ~preprocess_ok THEN [self |-> self, res |-> Err("initialize", MsgEngine)]
    ELSE
    LET params == PG_preprocess(fresh)
        enc == float_to_field(initial_value, checks)
    IN  IF enc.panic THEN [self |-> self, res |-> Err("initialize", MsgPanic)]
        ELSE IF ~init_ok THEN [self |-> self, res |-> Err("initialize", MsgEngine)]
        ELSE [self |-> [protogalaxy   |-> Some(PG_init(params, << enc.fe >>)),
                        pg_params     |-> Some(params),
                        current_state |-> << initial_value >>],
              res  |-> Ok("initialize", MsgInitialized)]

\* prove_gradient_step assigning the gradient to the mirror (= for +=)
prove_gradient_step_assign(self, gradient, accept, checks) ==
    IF self.protogalaxy = None
    THEN [self |-> self, res |-> Err("prove_gradient_step", MsgNotInitStep)]
    ELSE
    LET gradient_field == float_to_field(gradient, checks)
    IN  IF gradient_field.panic
        THEN [self |-> self, res |-> Err("prove_gradient_step", MsgPanic)]
        ELSE IF ~accept
        THEN [self |-> self, res |-> Err("prove_gradient_step", MsgEngine)]
        ELSE [self |-> [self EXCEPT
                          !.protogalaxy = Some(PG_prove_step(self.protogalaxy.v,
                                                             << gradient_field.fe >>)),
                          !.current_state = << gradient >>],
              res  |-> Ok("prove_gradient_step", gradient)]

\* prove_gradient_step updating the mirror before the engine is asked
prove_gradient_step_mirror_first(self, gradient, accept, checks) ==
    IF self.protogalaxy = None
    THEN [self |-> self, res |-> Err("prove_gradient_step", MsgNotInitStep)]
    ELSE
    LET gradient_field == float_to_field(gradient, checks)
        mirror == self.current_state[1] + gradient
        bumped == [self EXCEPT !.current_state = << mirror >>]
    IN  IF gradient_field.panic
        THEN [self |-> self, res |-> Err("prove_gradient_step", MsgPanic)]
        ELSE IF ~accept
        THEN [self |-> bumped, res |-> Err("prove_gradient_step", MsgEngine)]
        ELSE [self |-> [bumped EXCEPT
                          !.protogalaxy = Some(PG_prove_step(self.protogalaxy.v,
                                                             << gradient_field.fe >>))],
              res  |-> Ok("prove_gradient_step", mirror)]

\* prove_gradient_step folding the encoding of the updated mirror's change
\* (the mirror read back into proving)
prove_gradient_step_from_mirror(self, gradient, accept, checks) ==
    IF self.protogalaxy = None
    THEN [self |-> self, res |-> Err("prove_gradient_step", MsgNotInitStep)]
    ELSE
    LET gradient_field == float_to_field(gradient, checks)
        mirror == self.current_state[1] + gradient
        mirror_field == float_to_field(mirror, FALSE)
    IN  IF gradient_field.panic
        THEN [self |-> self, res |-> Err("prove_gradient_step", MsgPanic)]
        ELSE IF ~accept
        THEN [self |-> self, res |-> Err("prove_gradient_step", MsgEngine)]
        ELSE [self |-> [self EXCEPT
                          !.protogalaxy = Some(PG_prove_step(self.protogalaxy.v,
                                                             << mirror_field.fe >>)),
                          !.current_state = << mirror >>],
              res  |-> Ok("prove_gradient_step", mirror)]

\* FLZKPProver::prove_gradient_step.  accept: whether the engine's prove_step
\* succeeds on this call.
prove_gradient_step(self, gradient, accept, checks) ==
    IF self.protogalaxy = None
    THEN [self |-> self, res |-> Err("prove_gradient_step", MsgNotInitStep)]
    ELSE
    LET gradient_field == float_to_field(gradient, checks)
    IN  IF gradient_field.panic
        THEN [self |-> self, res |-> Err("prove_gradient_step", MsgPanic)]
        ELSE IF ~accept
        THEN [self |-> self, res |-> Err("prove_gradient_step", MsgEngine)]
        ELSE LET mirror == self.current_state[1] + gradient
             IN  [self |-> [self EXCEPT
                              !.protogalaxy = Some(PG_prove_step(self.protogalaxy.v,
                                                                 << gradient_field.fe >>)),
                              !.current_state = << mirror >>],
                  res  |-> Ok("prove_gradient_step", mirror)]

\* the batch loop counting the elements from one in its error message
RECURSIVE batch_loop_one_based(_, _, _, _)
batch_loop_one_based(self, gradients, i, checks) ==
    IF i >= Len(gradients)
    THEN [self |-> self, calls_ok |-> i,
          res |-> Ok("prove_gradient_batch", << Len(gradients), self.current_state[1] >>)]
    ELSE LET r == prove_gradient_step(self, gradients[i + 1].g, gradients[i + 1].accept,
                                      checks)
         IN  IF r.res.ok THEN batch_loop_one_based(r.self, gradients, i + 1, checks)
             ELSE IF r.res.err = MsgPanic
             THEN [self |-> r.self, calls_ok |-> i,
                   res |-> Err("prove_gradient_batch", MsgPanic)]
             ELSE [self |-> r.self, calls_ok |-> i,
                   res |-> [Err("prove_gradient_batch", r.res.err) EXCEPT !.at = i + 1]]

\* FLZKPProver::prove_gradient_batch.  gradients: a sequence of
\* [g |-> gradient, accept |-> the engine's answer for that element].
\* A panic unwinds through the loop as it is; an error is re-raised naming the
\* element's index.
RECURSIVE batch_loop(_, _, _, _)
batch_loop(self, gradients, i, checks) ==
    IF i >= Len(gradients)
    THEN [self |-> self, calls_ok |-> i,
          res |-> Ok("prove_gradient_batch", << Len(gradients), self.current_state[1] >>)]
    ELSE LET r == prove_gradient_step(self, gradients[i + 1].g, gradients[i + 1].accept,
                                      checks)
         IN  IF r.res.ok THEN batch_loop(r.self, gradients, i + 1, checks)
             ELSE IF r.res.err = MsgPanic
             THEN [self |-> r.self, calls_ok |-> i,
                   res |-> Err("prove_gradient_batch", MsgPanic)]
             ELSE [self |-> r.self, calls_ok |-> i,
                   res |-> [Err("prove_gradient_batch", r.res.err) EXCEPT !.at = i]]

\* prove_gradient_batch going on past a failing element and raising the first
\* error once the loop is through
RECURSIVE batch_loop_continue(_, _, _, _, _, _)
batch_loop_continue(self, gradients, i, checks, calls_ok, first) ==
    IF i >= Len(gradients)
    THEN [self |-> self, calls_ok |-> calls_ok,
          res |-> IF first = -1
                  THEN Ok("prove_gradient_batch",
                          << Len(gradients), self.current_state[1] >>)
                  ELSE [Err("prove_gradient_batch", MsgEngine) EXCEPT !.at = first]]
    ELSE LET r == prove_gradient_step(self, gradients[i + 1].g, gradients[i + 1].accept,
                                      checks)
         IN  IF r.res.ok
             THEN batch_loop_continue(r.self, gradients, i + 1, checks, calls_ok + 1, first)
             ELSE batch_loop_continue(r.self, gradients, i + 1, checks, calls_ok,
                                      IF first = -1 THEN i ELSE first)

prove_gradient_batch_continue(self, gradients, checks) ==
    batch_loop_continue(self, gradients, 0, checks, 0, -1)

\* prove_gradient_batch walking the gradients from the last to the first
Reverse(s) == [k \in 1..Len(s) |-> s[Len(s) + 1 - k]]

prove_gradient_batch_reversed(self, gradients, checks) ==
    batch_loop(self, Reverse(gradients), 0, checks)

\* calls_ok: how many of the loop's prove_gradient_step calls returned Ok
prove_gradient_batch(self, gradients, checks) ==
    batch_loop(self, gradients, 0, checks)

\* generate_final_proof handing out empty bytes when there is no engine
generate_final_proof_empty(self) ==
    IF self.protogalaxy = None
    THEN Ok("generate_final_proof", << >>)
    ELSE Ok("generate_final_proof",
            SerializeRunning(self.protogalaxy.v.U_i)
              \o SerializeIncoming(self.protogalaxy.v.u_i))

\* FLZKPProver::generate_final_proof: the running and the incoming instance,
\* serialized one after the other
generate_final_proof(self) ==
    IF self.protogalaxy = None
    THEN Err("generate_final_proof", MsgNotInit)
    ELSE Ok("generate_final_proof",
            SerializeRunning(self.protogalaxy.v.U_i)
              \o SerializeIncoming(self.protogalaxy.v.u_i))

\* FLZKPProver::verify_proof: the argument is not read; the proof verified is
\* the one derived from the session's own engine state
verify_proof(self, proof_bytes) ==
    IF self.protogalaxy = None THEN Err("verify_proof", MsgNotInit)
    ELSE IF self.pg_params = None THEN Err("verify_proof", MsgNoParams)
    ELSE LET vp == self.pg_params.v.vp
             ivc_proof == PG_ivc_proof(self.protogalaxy.v)
         IN  IF PG_verify(vp, ivc_proof)
             THEN Ok("verify_proof", TRUE)
             ELSE Err("verify_proof", MsgEngine)

\* The work of verify_proof, counted in field elements handled.
\* ivc_proof copies the snapshot; verify reads the snapshot once.
PG_ivc_proof_cost(pg) == Len(SerializeProof(PG_ivc_proof(pg)))
PG_verify_cost(vp, proof) == 1 + Len(SerializeProof(proof))

\* verify_proof verifying again every fold the session has made
verify_proof_cost_replay(self) ==
    IF self.protogalaxy = None THEN 1
    ELSE IF self.pg_params = None THEN 2
    ELSE 3 + PG_ivc_proof_cost(self.protogalaxy.v)
           + (1 + self.protogalaxy.v.U_i.n)
               * PG_verify_cost(self.pg_params.v.vp, PG_ivc_proof(self.protogalaxy.v))

\* two look-ups, one copy of the verifier parameters, one ivc_proof, one
\* verify; no loop
verify_proof_cost(self) ==
    IF self.protogalaxy = None THEN 1
    ELSE IF self.pg_params = None THEN 2
    ELSE 3 + PG_ivc_proof_cost(self.protogalaxy.v)
           + PG_verify_cost(self.pg_params.v.vp, PG_ivc_proof(self.protogalaxy.v))

\* get_state refusing to answer before initialize
get_state_needs_engine(self) ==
    IF self.protogalaxy = None THEN Err("get_state", MsgNotInit)
    ELSE Ok("get_state", self.current_state)

\* FLZKPProver::get_state
get_state(self) == Ok("get_state", self.current_state)

\* get_num_steps reading the second limb of the step counter
get_num_steps_limb1(self) ==
    IF self.protogalaxy # None
    THEN Ok("get_num_steps", (self.protogalaxy.v.i \div U64_MOD) % U64_MOD)
    ELSE Ok("get_num_steps", 0)

\* FLZKPProver::get_num_steps: the lowest 64-bit limb of the step counter
get_num_steps(self) ==
    IF self.protogalaxy # None
    THEN Ok("get_num_steps", self.protogalaxy.v.i % U64_MOD)
    ELSE Ok("get_num_steps", 0)

\* ------------------------------------------------------------------- state
VARIABLES
    protogalaxy,      \* FLZKPProver.protogalaxy: None or Some(engine state)
    pg_params,        \* FLZKPProver.pg_params: None or Some(parameter pair)
    current_state,    \* FLZKPProver.current_state: the plaintext mirror
    overflow_checks,  \* the build: does integer overflow panic
    rng,              \* parameter pairs drawn so far
    call,             \* the last call: [op, arg, env]; env is what the engine
                      \* answered (success of preprocess and init, or of the fold)
    result,           \* what the last call returned or raised
    folds,            \* prove_gradient_step calls that returned Ok since the
                      \* last successful initialize
    exact,            \* initial value plus the gradients of those calls, as reals
    no_sat,           \* none of those values left the signed word when scaled
    prior,            \* the folds the last successful initialize discarded
                      \* (-1: it ran on a session without an engine)
    sessions,         \* two FLZKPProver instances of one process, by name
    alone,            \* what each of them would be had only its own calls run
    value,            \* an f64 handed to float_to_field
    encoded,          \* None, or Some(what float_to_field made of it)
    decoded,          \* None, or Some(what field_to_float made of that)
    debug_format      \* how the field library prints an element with {:?}

vars == << protogalaxy, pg_params, current_state, overflow_checks, rng,
           call, result, folds, exact, no_sat, prior,
           sessions, alone, value, encoded, decoded, debug_format >>

\* the variables of the two-instance runs and of the conversion runs
pair == << sessions, alone >>
conv == << value, encoded, decoded, debug_format >>

session == << protogalaxy, pg_params, current_state >>

Self == [protogalaxy |-> protogalaxy, pg_params |-> pg_params,
         current_state |-> current_state]

SetSelf(s) ==
    /\ protogalaxy' = s.protogalaxy
    /\ pg_params' = s.pg_params
    /\ current_state' = s.current_state

\* x * 1e6, truncated, lies in the signed word: the cast does not saturate
NoSaturation(x) ==
    LET t == TruncDiv(x * SCALE, FloatDen) IN I64_MIN <= t /\ t <= I64_MAX

\* runs of one instance hold no second instance and convert nothing
NoPair ==
    /\ sessions = << >>
    /\ alone = << >>

NoConv ==
    /\ value = 0
    /\ encoded = None
    /\ decoded = None
    /\ debug_format = "plain"

Init ==
    /\ protogalaxy = new.protogalaxy
    /\ pg_params = new.pg_params
    /\ current_state = new.current_state
    /\ overflow_checks \in BOOLEAN
    /\ rng = 0
    /\ call = [op |-> "new", arg |-> 0, env |-> << >>]
    /\ result = Ok("new", 0)
    /\ folds = 0
    /\ exact = 0
    /\ no_sat = TRUE
    /\ prior = -1
    /\ NoPair
    /\ NoConv

Initialize ==
    /\ rng < MaxSetups
    /\ \E v \in Floats, preprocess_ok \in BOOLEAN, init_ok \in BOOLEAN :
         LET r == initialize(Self, v, rng + 1, preprocess_ok, init_ok, overflow_checks)
         IN  /\ SetSelf(r.self)
             /\ result' = r.res
             /\ call' = [op |-> "initialize", arg |-> v,
                          env |-> << preprocess_ok, init_ok >>]
             /\ rng' = IF preprocess_ok THEN rng + 1 ELSE rng
             /\ folds' = IF r.res.ok THEN 0 ELSE folds
             /\ exact' = IF r.res.ok THEN v ELSE exact
             /\ no_sat' = IF r.res.ok THEN NoSaturation(v) ELSE no_sat
             /\ prior' = IF ~r.res.ok THEN prior
                         ELSE IF protogalaxy = None THEN -1 ELSE folds
    /\ UNCHANGED << overflow_checks, pair, conv >>

CanFold(n) == IF protogalaxy = None THEN TRUE ELSE protogalaxy.v.i + n <= MaxFolds

ProveGradientStep ==
    /\ CanFold(1)
    /\ \E g \in Floats, accept \in BOOLEAN :
         LET r == prove_gradient_step(Self, g, accept, overflow_checks)
         IN  /\ SetSelf(r.self)
             /\ result' = r.res
             /\ call' = [op |-> "prove_gradient_step", arg |-> g, env |-> << accept >>]
             /\ folds' = IF r.res.ok THEN folds + 1 ELSE folds
             /\ exact' = IF r.res.ok THEN exact + g ELSE exact
             /\ no_sat' = IF r.res.ok THEN no_sat /\ NoSaturation(g) ELSE no_sat
    /\ UNCHANGED << overflow_checks, rng, prior, pair, conv >>

BatchElems == [g : BatchFloats, accept : BOOLEAN]
BatchInputs == UNION {[1..n -> BatchElems] : n \in 0..MaxBatch}

RECURSIVE SumG(_, _)
SumG(gradients, n) == IF n = 0 THEN 0 ELSE SumG(gradients, n - 1) + gradients[n].g

ProveGradientBatch ==
    /\ \E gradients \in BatchInputs :
         /\ CanFold(Len(gradients))
         /\ LET r == prove_gradient_batch(Self, gradients, overflow_checks)
            IN  /\ SetSelf(r.self)
                /\ result' = r.res
                /\ call' = [op |-> "prove_gradient_batch", arg |-> gradients,
                             env |-> << >>]
                /\ folds' = folds + r.calls_ok
                /\ exact' = exact + SumG(gradients, r.calls_ok)
                /\ no_sat' = (no_sat /\ \A k \in 1..r.calls_ok : NoSaturation(gradients[k].g))
    /\ UNCHANGED << overflow_checks, rng, prior, pair, conv >>

\* generate_final_proof moving the engine out of the session (take() for
\* as_ref())
GenerateFinalProof_take ==
    /\ result' = generate_final_proof(Self)
    /\ call' = [op |-> "generate_final_proof", arg |-> 0, env |-> << >>]
    /\ protogalaxy' = None
    /\ UNCHANGED << pg_params, current_state, overflow_checks, rng, folds, exact,
                    no_sat, prior, pair, conv >>

GenerateFinalProof ==
    /\ result' = generate_final_proof(Self)
    /\ call' = [op |-> "generate_final_proof", arg |-> 0, env |-> << >>]
    /\ UNCHANGED << session, overflow_checks, rng, folds, exact, no_sat, prior,
                    pair, conv >>

\* the parameter pairs a preprocess run of this or of another process may
\* have drawn
ParamPairs == 1..(MaxSetups + 1)

\* artifacts produced under other parameters than the session's: what
\* generate_final_proof returned on a session set up with another pair (another
\* session, or this one before a later initialize)
ForeignArtifacts ==
    IF pg_params = None THEN {}
    ELSE {generate_final_proof(initialize(new, 7, p, TRUE, TRUE, overflow_checks).self).val :
            p \in ParamPairs \ {pg_params.v.pp}}

\* the bytes a caller may pass: the artifact generate_final_proof returns in
\* this state, that artifact with one byte changed, none at all, or an
\* artifact produced under other parameters
CorruptAt(bytes, k) == [bytes EXCEPT ![k] = (bytes[k] + 1) % 256]
ProofInputs ==
    LET a == generate_final_proof(Self)
    IN  IF a.ok
        THEN {a.val, << >>} \cup {CorruptAt(a.val, k) : k \in 1..Len(a.val)}
               \cup ForeignArtifacts
        ELSE {<< >>}

VerifyProof ==
    /\ \E proof_bytes \in ProofInputs :
         /\ result' = verify_proof(Self, proof_bytes)
         /\ call' = [op |-> "verify_proof", arg |-> proof_bytes, env |-> << >>]
    /\ UNCHANGED << session, overflow_checks, rng, folds, exact, no_sat, prior,
                    pair, conv >>

GetState ==
    /\ result' = get_state(Self)
    /\ call' = [op |-> "get_state", arg |-> 0, env |-> << >>]
    /\ UNCHANGED << session, overflow_checks, rng, folds, exact, no_sat, prior,
                    pair, conv >>

GetNumSteps ==
    /\ result' = get_num_steps(Self)
    /\ call' = [op |-> "get_num_steps", arg |-> 0, env |-> << >>]
    /\ UNCHANGED << session, overflow_checks, rng, folds, exact, no_sat, prior,
                    pair, conv >>

Next ==
    \/ Initialize
    \/ ProveGradientStep
    \/ ProveGradientBatch
    \/ GenerateFinalProof
    \/ VerifyProof
    \/ GetState
    \/ GetNumSteps

Spec == Init /\ [][Next]_vars

\* ---------------------------------------------------------------- decoding
\* The canonical signed reading of a field element: above half the modulus
\* is negative.  field_to_real gives the decoded value on the float grid.
Signed(e) == IF e > FieldModulus \div 2 THEN e - FieldModulus ELSE e
field_to_real(e) == (Signed(e) * FloatDen) \div SCALE

\* 1e-6 on the float grid
Tol == FloatDen \div SCALE

Initialized == protogalaxy # None
Decoded == field_to_real(protogalaxy.v.z_i[1])
NumSteps == get_num_steps(Self).val

\* ------------------------------------------------------------------ claims

C2_StepCount == Initialized => NumSteps = folds

\* a prove_gradient_step has just failed after one that succeeded
C2_Witness ==
    /\ Initialized
    /\ folds = 1
    /\ call.op = "prove_gradient_step"
    /\ ~result.ok

\* the serialized artifact of the current session state
OwnArtifact == generate_final_proof(Self).val

\* C3: verify_proof returns true only for the bytes of the valid artifact of
\* the session's fold history; for corrupted or arbitrary bytes it reports
\* failure.
C3_VerifySound ==
    (call.op = "verify_proof" /\ result.ok /\ result.val = TRUE)
        => call.arg = OwnArtifact

\* C4: after a successful initialize and k >= 0 successful folds, verifying
\* the artifact derived from the current session state returns true.
C4_VerifyOwn ==
    (Initialized /\ call.op = "verify_proof" /\ call.arg = OwnArtifact)
        => (result.ok /\ result.val = TRUE)

\* the session's own artifact has just been verified after two folds
C4_Witness ==
    /\ Initialized
    /\ folds = 2
    /\ call.op = "verify_proof"
    /\ call.arg = OwnArtifact
    /\ result.ok

\* the engine is asked to fold and refuses
Rejected(c) ==
    /\ c.op = "prove_gradient_step"
    /\ c.env = << FALSE >>
    /\ ~float_to_field(c.arg, overflow_checks).panic

\* C5: when the engine rejects a fold, prove_gradient_step raises and engine
\* state, step counter, mirror and parameters are what they were before the
\* call; a later call with a corrected input then does what it would have
\* done had the failed call not been made.
C5_RejectedFoldFrame ==
    [][ (Initialized /\ Rejected(call'))
          => /\ ~result'.ok
             /\ result'.err = MsgEngine
             /\ session' = session
             /\ NumSteps' = NumSteps
             /\ \A g \in Floats :
                  prove_gradient_step(Self', g, TRUE, overflow_checks)
                    = prove_gradient_step(Self, g, TRUE, overflow_checks) ]_vars

\* a fold has just been rejected on a session that holds a fold
C5_Witness ==
    /\ Initialized
    /\ folds >= 1
    /\ Rejected(call)
    /\ result.err = MsgEngine

\* an element of a batch fails: no engine, the engine refuses, or the encoder
\* panics
ElemFails(e) ==
    \/ ~Initialized
    \/ ~e.accept
    \/ float_to_field(e.g, overflow_checks).panic

\* the 1-based position of the first failing element, 0 when none fails
FirstFail(gradients) ==
    IF \E k \in 1..Len(gradients) : ElemFails(gradients[k])
    THEN CHOOSE k \in 1..Len(gradients) :
            /\ ElemFails(gradients[k])
            /\ \A j \in 1..(k - 1) : ~ElemFails(gradients[j])
    ELSE 0

\* the session after prove_gradient_step on the first n elements, in order
RECURSIVE StepsInOrder(_, _, _)
StepsInOrder(self, gradients, n) ==
    IF n = 0 THEN self
    ELSE prove_gradient_step(StepsInOrder(self, gradients, n - 1),
                             gradients[n].g, gradients[n].accept, overflow_checks).self

\* C6: prove_gradient_batch folds its elements in order and stops at the
\* first failure: with the element at position k the first to fail it raises,
\* exactly the k-1 elements before it are folded (step counter and state
\* advanced by exactly those) and none after it.
C6_BatchStopsAtFirstFailure ==
    [][ call'.op = "prove_gradient_batch"
          => LET gradients == call'.arg
                 k == FirstFail(gradients)
                 n == IF k = 0 THEN Len(gradients) ELSE k - 1
             IN  /\ result'.ok <=> (k = 0)
                 /\ NumSteps' = NumSteps + (IF Initialized THEN n ELSE 0)
                 /\ current_state' =
                      << current_state[1] + (IF Initialized THEN SumG(gradients, n) ELSE 0) >>
                 /\ pg_params' = pg_params
                 /\ Self' = StepsInOrder(Self, gradients, n) ]_vars

\* a batch of two whose second element failed after the first was folded
C6_Witness ==
    /\ Initialized
    /\ call.op = "prove_gradient_batch"
    /\ Len(call.arg) = 2
    /\ call.arg[1].accept
    /\ ~call.arg[2].accept
    /\ ~result.ok
    /\ folds >= 1

NeedsEngine == {"prove_gradient_step", "generate_final_proof", "verify_proof"}

\* C7: on a session that was never initialized, prove_gradient_step,
\* generate_final_proof and verify_proof raise a not-initialized error and
\* leave the session as it was (no engine, step count 0, mirror unchanged);
\* initialize then succeeds, and after it the operations work.
C7_NotInitialized ==
    [][ /\ (~Initialized /\ call'.op \in NeedsEngine)
            => /\ ~result'.ok
               /\ result'.err = (IF call'.op = "prove_gradient_step"
                                 THEN MsgNotInitStep ELSE MsgNotInit)
               /\ session' = session
               /\ ~Initialized'
               /\ NumSteps' = 0
        /\ (/\ ~Initialized
            /\ call'.op = "initialize"
            /\ call'.env = << TRUE, TRUE >>
            /\ ~float_to_field(call'.arg, overflow_checks).panic)
            => (result'.ok /\ Initialized')
        /\ (Initialized /\ call'.op \in {"generate_final_proof", "verify_proof"})
            => result'.ok
        /\ (/\ Initialized
            /\ call'.op = "prove_gradient_step"
            /\ call'.env = << TRUE >>
            /\ ~float_to_field(call'.arg, overflow_checks).panic)
            => result'.ok ]_vars

\* a call that needs the engine has just failed on a fresh session
C7_Witness ==
    /\ ~Initialized
    /\ call.op = "verify_proof"
    /\ result.err = MsgNotInit

\* C8: initialize(v) on an initialized session is either rejected with the
\* session unchanged, or leaves the session as a new session's initialize(v)
\* would: step count 0, mirror v, engine state built from encode(v), no
\* trace of the earlier folds.
C8_Reinitialize ==
    [][ (Initialized /\ call'.op = "initialize")
          => IF result'.ok
             THEN /\ NumSteps' = 0
                  /\ current_state' = << call'.arg >>
                  /\ protogalaxy'.v.z_0 = << float_to_field(call'.arg, overflow_checks).fe >>
                  /\ protogalaxy'.v.z_i = protogalaxy'.v.z_0
                  /\ protogalaxy'.v.U_i.n = 0
                  /\ protogalaxy'.v.U_i.acc = 0
                  /\ protogalaxy'.v.pp = pg_params'.v.pp
                  /\ Self' = initialize(new, call'.arg, rng', TRUE, TRUE,
                                        overflow_checks).self
             ELSE session' = session ]_vars

\* an initialize has just succeeded on a session that held folds
C8_Witness ==
    /\ call.op = "initialize"
    /\ result.ok
    /\ prior >= 1

\* the successful folds of a step
FoldsInStep ==
    IF call'.op = "initialize" /\ result'.ok THEN 0 ELSE folds' - folds

\* C9: along every sequence of session operations get_num_steps() never
\* decreases; it rises by one per successful fold and by nothing else.
C9_CounterMonotone ==
    [][ /\ NumSteps' >= NumSteps
        /\ NumSteps' - NumSteps = FoldsInStep ]_vars

ReadOnlyOps == {"generate_final_proof", "verify_proof", "get_state", "get_num_steps"}

\* call c has produced a proof, or verified the proof the session produces
ProofMade(c, r) ==
    /\ r.ok
    /\ \/ c.op = "generate_final_proof"
       \/ c.op = "verify_proof" /\ c.arg = OwnArtifact

\* C11: generate_final_proof, verify_proof, get_state and get_num_steps leave
\* engine state, step counter, mirror and parameters as they were, and a
\* prove_gradient_step issued next does what it would have done without them.
C11_ReadsDoNotMutate ==
    [][ /\ call'.op \in ReadOnlyOps
             => /\ session' = session
                /\ NumSteps' = NumSteps
        /\ ProofMade(call', result')
             => \A g \in Floats, accept \in BOOLEAN :
                  prove_gradient_step(Self', g, accept, overflow_checks)
                    = prove_gradient_step(Self, g, accept, overflow_checks) ]_vars

\* a proof has just been produced on a session that holds a fold and can fold
\* again
C11_Witness ==
    /\ Initialized
    /\ folds = 1
    /\ call.op = "generate_final_proof"
    /\ result.ok
    /\ prove_gradient_step(Self, 7, TRUE, overflow_checks).res.ok

\* the session a batch has reached after j iterations of its loop
BatchAfter(self, gradients, j) ==
    prove_gradient_batch(self, SubSeq(gradients, 1, j), overflow_checks).self

\* from iteration j on, each iteration of the batch's loop leaves the session
\* that prove_gradient_step(g_j) makes of the one before it (prev), with the
\* step counter at count + j and the mirror at the sum so far
RECURSIVE LoopFollowsSteps(_, _, _, _, _, _)
LoopFollowsSteps(self, prev, gradients, j, n, count) ==
    IF j > n THEN TRUE
    ELSE LET after == BatchAfter(self, gradients, j)
         IN  /\ after = prove_gradient_step(prev, gradients[j].g, TRUE,
                                            overflow_checks).self
             /\ get_num_steps(after).val = count + j
             /\ after.current_state
                  = << self.current_state[1] + SumG(gradients, j) >>
             /\ LoopFollowsSteps(self, after, gradients, j + 1, n, count)

\* C12: folds are applied in call order, none reordered, skipped or merged: on
\* an initialized session prove_gradient_batch([g_1..g_n]) passes through the
\* session states of prove_gradient_step(g_1), ..., prove_gradient_step(g_n)
\* called in that order (up to the first element that fails), the j-th fold
\* working on the state the (j-1)-th produced.
C12_BatchIsStepsInOrder ==
    [][ (Initialized /\ call'.op = "prove_gradient_batch")
          => LET gradients == call'.arg
                 k == FirstFail(gradients)
                 n == IF k = 0 THEN Len(gradients) ELSE k - 1
             IN  /\ Self' = StepsInOrder(Self, gradients, n)
                 /\ LoopFollowsSteps(Self, Self, gradients, 1, n, NumSteps) ]_vars

\* a batch of two different gradients has just been folded
C12_Witness ==
    /\ Initialized
    /\ call.op = "prove_gradient_batch"
    /\ result.ok
    /\ Len(call.arg) = 2
    /\ call.arg[1].g # call.arg[2].g
    /\ folds = 2

\* C13: verify_proof applied to an artifact produced under other parameters
\* than the session's (by another session, or by this one before a later
\* initialize replaced them) fails and does not return true.
C13_ParamMismatch ==
    (call.op = "verify_proof" /\ call.arg \in ForeignArtifacts)
        => (~result.ok /\ result.val # TRUE)

\* C14: the bytes generate_final_proof returns are the serialized proof
\* artifact of the current session state (step counter i, initial state z_0,
\* current state z_i, running and incoming instance), the artifact engine
\* verification consumes.
C14_BytesAreArtifact ==
    (call.op = "generate_final_proof" /\ result.ok)
        => result.val = SerializeProof(PG_ivc_proof(protogalaxy.v))

\* a batch has just raised an error (not a panic passing through)
BatchFailed ==
    /\ call.op = "prove_gradient_batch"
    /\ ~result.ok
    /\ result.err # MsgPanic

\* C15 as stated: when the element at position k of a batch (the one after
\* k-1 successful folds) is the one that fails, the error names position k.
C15_ErrorNamesPosition ==
    BatchFailed => result.at = FirstFail(call.arg)

\* C15 amended: the error names the zero-based index of the failing element,
\* k - 1, the number of elements folded before it.
C15_ErrorNamesIndex ==
    BatchFailed => /\ FirstFail(call.arg) >= 1
                   /\ result.at = FirstFail(call.arg) - 1

\* the second element of a batch has just failed and the error names index 1
C15_Witness ==
    /\ BatchFailed
    /\ Initialized
    /\ Len(call.arg) = 2
    /\ FirstFail(call.arg) = 2
    /\ result.at = 1

\* the field elements the encoder makes of the caller's floats
Encodings ==
    {float_to_field(g, overflow_checks).fe :
        g \in {f \in Floats : ~float_to_field(f, overflow_checks).panic}}

\* the step circuit on state z: one output, z[0] + e, whatever the step index
CircuitAdds(z) ==
    \A e \in Encodings, i \in 0..(MaxFolds + 1) :
        LET z_next == generate_step_constraints(i, z, << e >>)
        IN  /\ Len(z_next) = state_len
            /\ z_next = << FrAdd(z[1], e) >>
            /\ z_next = generate_step_constraints(0, z, << e >>)

\* C17: the step circuit has state arity 1 and maps state z_i and external
\* input e to the one-element state [z_i[0] + e], independent of the step
\* index and with no other effect; the state vector has length
\* state_len() = 1 at every step of every session.
C17_CircuitAddsOne ==
    [][ /\ state_len = 1
        /\ Initialized'
             => /\ Len(protogalaxy'.v.z_0) = state_len
                /\ Len(protogalaxy'.v.z_i) = state_len
                /\ Len(current_state') = state_len
        /\ (Initialized' /\ protogalaxy' # protogalaxy)
             => CircuitAdds(protogalaxy'.v.z_i)
        /\ (call'.op = "prove_gradient_step" /\ result'.ok)
             => /\ protogalaxy'.v.z_i
                     = << FrAdd(protogalaxy.v.z_i[1],
                                float_to_field(call'.arg, overflow_checks).fe) >>
                /\ protogalaxy'.v.z_0 = protogalaxy.v.z_0
                /\ pg_params' = pg_params ]_vars

\* the second fold of a session has just moved its one-element state
C17_Witness ==
    /\ Initialized
    /\ call.op = "prove_gradient_step"
    /\ result.ok
    /\ folds = 2
    /\ Len(protogalaxy.v.z_i) = 1
    /\ protogalaxy.v.z_i # protogalaxy.v.z_0

\* ------------------------------------------------------------ two instances
\* Two FLZKPProver instances of one process, called in any interleaving.
\* Each owns its three fields; the process shares the build and the source of
\* randomness that preprocess draws from.
Peers == {"A", "B"}

single == << protogalaxy, pg_params, current_state, folds, exact, no_sat, prior >>

NoSingle ==
    /\ protogalaxy = new.protogalaxy
    /\ pg_params = new.pg_params
    /\ current_state = new.current_state
    /\ folds = 0
    /\ exact = 0
    /\ no_sat = TRUE
    /\ prior = -1

\* the mirror kept in a static that every instance reads
Put_static(ss, s, self) ==
    [t \in Peers |->
        IF t = s THEN self ELSE [ss[t] EXCEPT !.current_state = self.current_state]]

\* the fields of instance s written through &mut self
Put(ss, s, self) == [ss EXCEPT ![s] = self]

PeerCall(op, s, arg, env) == [op |-> op, on |-> s, arg |-> arg, env |-> env]

InitTwo ==
    /\ sessions = [s \in Peers |-> new]
    /\ alone = [s \in Peers |-> new]
    /\ overflow_checks \in BOOLEAN
    /\ rng = 0
    /\ call = PeerCall("new", "A", 0, << >>)
    /\ result = Ok("new", 0)
    /\ NoSingle
    /\ NoConv

PeerInitialize ==
    /\ rng < MaxSetups
    /\ \E s \in Peers, v \in BatchFloats, init_ok \in BOOLEAN :
         LET r == initialize(sessions[s], v, rng + 1, TRUE, init_ok, overflow_checks)
             a == initialize(alone[s], v, rng + 1, TRUE, init_ok, overflow_checks)
         IN  /\ sessions' = Put(sessions, s, r.self)
             /\ alone' = [alone EXCEPT ![s] = a.self]
             /\ result' = r.res
             /\ call' = PeerCall("initialize", s, v, << TRUE, init_ok >>)
             /\ rng' = rng + 1
    /\ UNCHANGED << overflow_checks, single, conv >>

PeerProveGradientStep ==
    /\ \E s \in Peers, g \in BatchFloats, accept \in BOOLEAN :
         /\ IF sessions[s].protogalaxy = None THEN TRUE
            ELSE sessions[s].protogalaxy.v.i < MaxFolds
         /\ LET r == prove_gradient_step(sessions[s], g, accept, overflow_checks)
                a == prove_gradient_step(alone[s], g, accept, overflow_checks)
            IN  /\ sessions' = Put(sessions, s, r.self)
                /\ alone' = [alone EXCEPT ![s] = a.self]
                /\ result' = r.res
                /\ call' = PeerCall("prove_gradient_step", s, g, << accept >>)
    /\ UNCHANGED << overflow_checks, rng, single, conv >>

PeerRead ==
    /\ \E s \in Peers :
         \/ /\ result' = generate_final_proof(sessions[s])
            /\ call' = PeerCall("generate_final_proof", s, 0, << >>)
         \/ /\ result' = verify_proof(sessions[s], << >>)
            /\ call' = PeerCall("verify_proof", s, << >>, << >>)
         \/ /\ result' = get_state(sessions[s])
            /\ call' = PeerCall("get_state", s, 0, << >>)
         \/ /\ result' = get_num_steps(sessions[s])
            /\ call' = PeerCall("get_num_steps", s, 0, << >>)
    /\ UNCHANGED << pair, overflow_checks, rng, single, conv >>

NextTwo ==
    \/ PeerInitialize
    \/ PeerProveGradientStep
    \/ PeerRead

SpecTwo == InitTwo /\ [][NextTwo]_vars

\* C16: two session instances share no mutable state: in every interleaving
\* of operations on A and B an operation on one leaves the other's engine
\* state, step counter, mirror and parameters unchanged, and each session is
\* in the state its own operations alone would have produced.
C16_SessionsIndependent ==
    [][ /\ \A t \in Peers \ {call'.on} :
             /\ sessions'[t] = sessions[t]
             /\ get_num_steps(sessions'[t]) = get_num_steps(sessions[t])
        /\ sessions' = alone' ]_vars

\* B has just folded while A holds two folds of its own
C16_Witness ==
    /\ sessions # << >>
    /\ call.op = "prove_gradient_step"
    /\ call.on = "B"
    /\ result.ok
    /\ get_num_steps(sessions["A"]).val = 2
    /\ get_num_steps(sessions["B"]).val = 1
    /\ sessions["A"].current_state # sessions["B"].current_state

\* ------------------------------------------------------------- the decoder
\* Text is a sequence of one-character strings.
DigitChars == << "0", "1", "2", "3", "4", "5", "6", "7", "8", "9" >>

\* the decimal digits of a natural number
RECURSIVE Digits(_)
Digits(n) ==
    IF n < 10 THEN << DigitChars[n + 1] >>
    ELSE Digits(n \div 10) \o << DigitChars[(n % 10) + 1] >>

\* format!("{:?}", field): the canonical integer of the element in decimal,
\* bare or inside a type name's parentheses, as the field library prints it
DebugFormats == {"plain", "wrapped"}
DebugText(field, format) ==
    IF format = "plain" THEN Digits(field)
    ELSE << "F", "p", "(" >> \o Digits(field) \o << ")" >>

\* the first index of character c in text s, 0 when there is none
IndexOf(s, c) ==
    IF \E k \in 1..Len(s) : s[k] = c
    THEN CHOOSE k \in 1..Len(s) : s[k] = c /\ \A j \in 1..(k - 1) : s[j] # c
    ELSE 0

\* s.split(c).next(): the text before the first c
SplitFirst(s, c) ==
    IF IndexOf(s, c) = 0 THEN s ELSE SubSeq(s, 1, IndexOf(s, c) - 1)

\* s.split(c).nth(1): the text between the first c and the next one
SplitSecond(s, c) ==
    IF IndexOf(s, c) = 0 THEN None
    ELSE Some(SplitFirst(SubSeq(s, IndexOf(s, c) + 1, Len(s)), c))

\* the number a text of digits spells
RECURSIVE DigitsValue(_)
DigitsValue(t) ==
    IF t = << >> THEN 0
    ELSE 10 * DigitsValue(SubSeq(t, 1, Len(t) - 1))
           + (CHOOSE d \in 0..9 : DigitChars[d + 1] = t[Len(t)])

\* str::parse::<u64>: digits only, at least one, the value within the word
ParseU64(t) ==
    IF t = << >> \/ \E k \in 1..Len(t) : \A d \in 1..10 : DigitChars[d] # t[k]
    THEN None
    ELSE IF DigitsValue(t) > U64_MOD - 1 THEN None
    ELSE Some(DigitsValue(t))

\* field_to_float of examples/addition_circuit.rs: the number between the
\* parentheses of the element's debug text over 1e6, 0.0 when there is none
field_to_float(field, format) ==
    LET s == DebugText(field, format)
        num_str == SplitSecond(s, "(")
    IN  IF num_str = None THEN 0
        ELSE LET val == ParseU64(SplitFirst(num_str.v, ")"))
             IN  IF val = None THEN 0 ELSE (val.v * FloatDen) \div SCALE

\* ------------------------------------------------------ conversion runs
\* One float is encoded and the encoding decoded again.
EncFloats == (MinFloat - 2 * SubMicro)..HugeFloat

InitEnc ==
    /\ value \in EncFloats
    /\ encoded = None
    /\ decoded = None
    /\ debug_format \in DebugFormats
    /\ overflow_checks \in BOOLEAN
    /\ rng = 0
    /\ call = [op |-> "new", arg |-> 0, env |-> << >>]
    /\ result = Ok("new", 0)
    /\ NoSingle
    /\ NoPair

FloatToField ==
    /\ encoded = None
    /\ encoded' = Some(float_to_field(value, overflow_checks))
    /\ UNCHANGED << value, decoded, debug_format, overflow_checks, rng, call, result,
                    single, pair >>

FieldToFloat ==
    /\ encoded # None
    /\ decoded = None
    /\ ~encoded.v.panic
    /\ decoded' = Some(field_to_float(encoded.v.fe, debug_format))
    /\ UNCHANGED << value, encoded, debug_format, overflow_checks, rng, call, result,
                    single, pair >>

NextEnc ==
    \/ FloatToField
    \/ FieldToFloat

SpecEnc == InitEnc /\ [][NextEnc]_vars

\* |x * 1e6| fits in the signed word
FitsWord(x) == Abs(TruncDiv(x * SCALE, FloatDen)) <= I64_MAX

\* C18: encode/decode round trip: for every finite x whose scaled magnitude
\* fits in the native word, negative x included,
\* field_to_float(float_to_field(x)) is within 1e-6 of x.
C18_RoundTrip ==
    (decoded # None /\ FitsWord(value)) => Abs(decoded.v - value) <= Tol

\* what C19 says of one float x: the encoding is the field element of
\* x * 1e6 truncated toward zero, negated in the field when that is negative,
\* and encoding -x gives its additive inverse
NegationCancels(x, enc) ==
    LET t == TruncDiv(x * SCALE, FloatDen)
        opposite == float_to_field(-x, overflow_checks)
    IN  /\ ~enc.panic
        /\ enc.fe = (IF t >= 0 THEN FrFromU64(t) ELSE FrNeg(FrFromU64(-t)))
        /\ ~opposite.panic
        /\ FrAdd(enc.fe, opposite.fe) = 0

\* C19 as stated: float_to_field(x) is the field element of x * 1e6
\* truncated toward zero when that is non-negative and the additive inverse
\* of the encoded magnitude when it is negative, so that
\* float_to_field(x) + float_to_field(-x) = 0 for every finite x.
C19_NegationCancels ==
    encoded # None => NegationCancels(value, encoded.v)

\* C19 amended: the same for every x whose scaled magnitude |x * 1e6| is
\* below 2^63.
C19_NegationCancelsInRange ==
    (encoded # None /\ FitsWord(value)) => NegationCancels(value, encoded.v)

\* a negative value between two grid lines has been encoded
C19_Witness ==
    /\ encoded # None
    /\ FitsWord(value)
    /\ value < -SubMicro
    /\ value % SubMicro # 0
    /\ encoded.v.fe = FrNeg(FrFromU64(TruncDiv(-value * SCALE, FloatDen)))

\* --------------------------------------------------------- a long session
\* One session folded up to ManyFolds times and verified along the way.
LongInitialize ==
    /\ protogalaxy = None
    /\ \E v \in BatchFloats :
         LET r == initialize(Self, v, rng + 1, TRUE, TRUE, overflow_checks)
         IN  /\ SetSelf(r.self)
             /\ result' = r.res
             /\ call' = [op |-> "initialize", arg |-> v, env |-> << TRUE, TRUE >>]
             /\ rng' = rng + 1
             /\ folds' = 0
             /\ exact' = v
             /\ no_sat' = NoSaturation(v)
    /\ UNCHANGED << overflow_checks, prior, pair, conv >>

LongProveGradientStep ==
    /\ protogalaxy # None
    /\ folds < ManyFolds
    /\ \E g \in BatchFloats :
         LET r == prove_gradient_step(Self, g, TRUE, overflow_checks)
         IN  /\ SetSelf(r.self)
             /\ result' = r.res
             /\ call' = [op |-> "prove_gradient_step", arg |-> g, env |-> << TRUE >>]
             /\ folds' = folds + 1
             /\ exact' = exact + g
             /\ no_sat' = (no_sat /\ NoSaturation(g))
    /\ UNCHANGED << overflow_checks, rng, prior, pair, conv >>

LongVerifyProof ==
    /\ result' = verify_proof(Self, OwnArtifact)
    /\ call' = [op |-> "verify_proof", arg |-> OwnArtifact, env |-> << >>]
    /\ UNCHANGED << session, overflow_checks, rng, folds, exact, no_sat, prior,
                    pair, conv >>

NextLong ==
    \/ LongInitialize
    \/ LongProveGradientStep
    \/ LongVerifyProof

SpecLong == Init /\ [][NextLong]_vars

\* the cost of verifying a session that holds one fold
CostAtOneFold ==
    verify_proof_cost(
        prove_gradient_step(initialize(new, 7, 1, TRUE, TRUE, overflow_checks).self,
                            7, TRUE, overflow_checks).self)

C21_EncodeNeverFails ==
    encoded # None => ~encoded.v.panic

\* C22: prove_gradient_batch on a never-initialized session never reports
\* success: for every gradient sequence, the empty one included, it fails
\* with a not-initialized error and folds nothing.
C22_BatchNeedsInit ==
    (call.op = "prove_gradient_batch" /\ ~Initialized)
        => /\ ~result.ok
           /\ result.err = MsgNotInitStep
           /\ NumSteps = 0

\* preprocess or the engine's init fails inside initialize
SetupFails(c) ==
    /\ c.op = "initialize"
    /\ c.env # << TRUE, TRUE >>

\* C23: if circuit construction, parameter preprocessing or engine
\* initialisation fails inside initialize, initialize returns an error and no
\* session field is changed: an uninitialized session stays uninitialized, an
\* initialized one keeps its engine state, parameters, step count and mirror.
C23_FailedInitializeFrame ==
    [][ SetupFails(call')
          => /\ ~result'.ok
             /\ session' = session
             /\ Initialized' = Initialized
             /\ NumSteps' = NumSteps
             /\ folds' = folds ]_vars

\* the engine's init has just failed on a session that holds a fold
C23_Witness ==
    /\ call.op = "initialize"
    /\ call.env = << TRUE, FALSE >>
    /\ ~result.ok
    /\ Initialized
    /\ folds >= 1

\* call c made on session self: the session it leaves and what it returns
\* (fresh: the parameter pair an initialize would draw)
Replay(self, c, fresh) ==
    CASE c.op = "initialize" ->
           initialize(self, c.arg, fresh, c.env[1], c.env[2], overflow_checks)
      [] c.op = "prove_gradient_step" ->
           prove_gradient_step(self, c.arg, c.env[1], overflow_checks)
      [] c.op = "prove_gradient_batch" ->
           LET r == prove_gradient_batch(self, c.arg, overflow_checks)
           IN  [self |-> r.self, res |-> r.res]
      [] c.op = "generate_final_proof" ->
           [self |-> self, res |-> generate_final_proof(self)]
      [] c.op = "verify_proof" ->
           [self |-> self, res |-> verify_proof(self, c.arg)]
      [] c.op = "get_state" ->
           [self |-> self, res |-> get_state(self)]
      [] OTHER ->
           [self |-> self, res |-> get_num_steps(self)]

\* the session with its mirror off by 1e-6 and everything else the same
MirrorTwin == [Self EXCEPT !.current_state = << current_state[1] + Tol >>]

\* the operations whose return value is not the mirror or a status text
ProvingOps == {"initialize", "generate_final_proof", "verify_proof", "get_num_steps"}

\* C24: the plaintext mirror is never an input to proving: a session that
\* differs only in the mirror's value and receives the same operation ends
\* with the same engine state, step counter, parameters, proof artifact and
\* verification outcome; only get_state's value and the status text differ.
C24_MirrorNotProved ==
    [][ \A twin \in {Replay(MirrorTwin, call', rng + 1)} :
          /\ twin.self.protogalaxy = protogalaxy'
          /\ twin.self.pg_params = pg_params'
          /\ twin.res.ok = result'.ok
          /\ twin.res.err = result'.err
          /\ twin.res.at = result'.at
          /\ call'.op \in ProvingOps => twin.res.val = result'.val ]_vars

\* a proof has just been produced by a session whose mirror is not the
\* decoded engine state, and the twin's proof is the same
C24_Witness ==
    /\ Initialized
    /\ folds >= 1
    /\ call.op = "generate_final_proof"
    /\ result.ok
    /\ current_state[1] # Decoded
    /\ generate_final_proof(MirrorTwin) = result

\* the last call was an initialize that succeeded
JustInitialized == call.op = "initialize" /\ result.ok

\* C25: get_state and get_num_steps never fail in any session state and
\* return the mirror and the step counter as they are at the call: 0 and
\* [0.0] on a never-initialized session, 0 and [v] right after a successful
\* initialize(v).
C25_ObserversNeverFail ==
    [][ /\ call'.op = "get_state"
             => /\ result'.ok
                /\ result'.val = current_state
                /\ ~Initialized => result'.val = << 0 >>
                /\ JustInitialized => result'.val = << call.arg >>
        /\ call'.op = "get_num_steps"
             => /\ result'.ok
                /\ result'.val = (IF Initialized THEN folds ELSE 0)
                /\ JustInitialized => result'.val = 0 ]_vars

\* get_state has just answered [v] on a session initialized with v # 0 that
\* has not folded
C25_Witness ==
    /\ call.op = "get_state"
    /\ result.ok
    /\ Initialized
    /\ folds = 0
    /\ result.val = << exact >>
    /\ exact # 0

\* C26: in every reachable session state the parameter pair is present
\* exactly when the engine state is (a successful initialize sets both and
\* nothing clears them), so verify_proof's "params not initialized" error is
\* never returned.
C26_ParamsIffEngine ==
    /\ (pg_params = None) <=> (protogalaxy = None)
    /\ Initialized => pg_params.v.pp = protogalaxy.v.pp
    /\ result.err # MsgNoParams
    /\ verify_proof(Self, << >>).err # MsgNoParams

\* verify_proof has just passed its two look-ups on a session that was
\* initialized twice
C26_Witness ==
    /\ call.op = "verify_proof"
    /\ result.ok
    /\ prior >= 0
    /\ pg_params # None
    /\ protogalaxy # None

====
